---- MODULE Spec2Model ----
(***************************************************************************)
(* Model of the thcrap launcher scripts thcrap_auto.py and                 *)
(* thcrap_auto_gui.py: target guard, installation bootstrap, JSON document *)
(* store, launcher settings, profile discovery and the exec handoff.       *)
(***************************************************************************)
EXTENDS Integers, Sequences, FiniteSets, TLC

(***************************************************************************)
(* Bounds of the model.                                                    *)
(***************************************************************************)
\* longest wrapper prefix (args.args) drawn for exec_game
MaxArgs == 2
\* number of candidate file names drawn for a profile directory
MaxFiles == 3
\* number of settings/config keys other than the overridden ones
MaxOtherKeys == 1

(***************************************************************************)
(* Python values and dictionaries.                                         *)
(***************************************************************************)
PyStr(s) == [t |-> "str", v |-> s]
PyBool(b) == [t |-> "bool", v |-> IF b THEN "True" ELSE "False"]

\* str(x) of a Python value
str(x) == x.v

\* dict.get(key, default)
get(d, key, default) == IF key \in DOMAIN d THEN d[key] ELSE default

\* d | o  (dict union, right operand wins)
merge_drop_rest(d, o) == o
merge(d, o) ==
    [k \in DOMAIN d \cup DOMAIN o |-> IF k \in DOMAIN o THEN o[k] ELSE d[k]]

(***************************************************************************)
(* JSON documents on disk.  A file is absent, unparsable, or holds a JSON  *)
(* object whose values are JSON tokens.                                    *)
(***************************************************************************)
StrNames == {"en", "es", "no patch", "no_patch", "no_config", "#000", "x"}

json_dumps(x) == IF x.t = "bool"
                 THEN (IF x.v = "True" THEN "true" ELSE "false")
                 ELSE "\"" \o x.v \o "\""

json_loads(tok) == IF tok = "true" THEN PyBool(TRUE)
                   ELSE IF tok = "false" THEN PyBool(FALSE)
                   ELSE PyStr(CHOOSE s \in StrNames : "\"" \o s \o "\"" = tok)

Absent == [kind |-> "absent", text |-> <<>>]
Corrupt == [kind |-> "corrupt", text |-> <<>>]
Json(text) == [kind |-> "json", text |-> text]

\* json.dump(config, file): the file's new contents
dump(config) == Json([k \in DOMAIN config |-> json_dumps(config[k])])

\* load_json with "except Exception" in place of "except FileNotFoundError"
load_json_any_error(file) ==
    IF file.kind = "corrupt"
    THEN [raised |-> FALSE, value |-> <<>>]
    ELSE [raised |-> FALSE,
          value |-> [k \in DOMAIN file.text |-> json_loads(file.text[k])]]

\* load_json(path): FileNotFoundError gives {}, a parse error propagates
load_json(file) ==
    IF file.kind = "corrupt"
    THEN [raised |-> TRUE, value |-> <<>>]
    ELSE [raised |-> FALSE,
          value |-> [k \in DOMAIN file.text |-> json_loads(file.text[k])]]

\* save_json(config, path)
save_json(config) == dump(config)

\* the overrides of override_config_defaults
overrides == [k \in {"background_updates", "update_others"} |-> PyBool(FALSE)]

\* override_config_defaults(): the new contents of config.js, or a raise
override_config_defaults(file) ==
    LET config == load_json(file)
    IN IF config.raised
       THEN [raised |-> TRUE, file |-> file]
       ELSE [raised |-> FALSE, file |-> save_json(merge(config.value, overrides))]

\* set_lastrun(config_name): the new contents of thcrap_launcher.json
set_lastrun(file, config_name) ==
    LET settings == load_json(file)
    IN IF settings.raised
       THEN [raised |-> TRUE, file |-> file]
       ELSE [raised |-> FALSE,
             file |-> save_json(merge(settings.value,
                                      [k \in {"last_run"} |-> PyStr(config_name)]))]

\* get_lastrun(settings): settings is the default argument unless passed
get_lastrun(settings) == str(get(settings, "last_run", PyStr("no_config")))

(***************************************************************************)
(* Paths.  A path is a directory (sequence of components), a stem and an   *)
(* extension; exists records whether the file is on disk.                  *)
(***************************************************************************)
PWD == <<"games", "th18">>

RECURSIVE Join(_)
Join(parts) == IF parts = <<>> THEN ""
               ELSE IF Len(parts) = 1 THEN parts[1]
               ELSE parts[1] \o "/" \o Join(Tail(parts))

\* the string of a game path as given on the command line
Render(p) == "/" \o Join(p.dir \o <<p.stem \o p.ext>>)

\* str.casefold() on the extensions drawn
casefold(ext) == IF ext \in {".EXE", ".Exe"} THEN ".exe" ELSE ext

\* Path(filename).is_relative_to(cwd): component-wise prefix
is_relative_to(dir, cwd) ==
    /\ Len(dir) >= Len(cwd)
    /\ \A i \in 1..Len(cwd) : dir[i] = cwd[i]

\* check_exe(filename): "" when it returns True, else the exception message
check_exe(p) ==
    IF casefold(p.ext) # ".exe"
    THEN Render(p) \o " doesn't end in exe"
    ELSE IF ~is_relative_to(p.dir, PWD)
    THEN Render(p) \o " is not inside the current directory, /" \o Join(PWD)
    ELSE IF ~p.exists
    THEN Render(p) \o " does not exist"
    ELSE ""

\* os.path.abspath of the thcrap directory
abspath(d) == IF d.abs THEN d.parts ELSE PWD \o d.parts

RECURSIVE CommonLen(_, _)
CommonLen(a, b) == IF a = <<>> \/ b = <<>> THEN 0
                   ELSE IF a[1] # b[1] THEN 0
                   ELSE 1 + CommonLen(Tail(a), Tail(b))

\* os.path.relpath(game_exe, thcrap_dir): the components, then the string
relpath_parts(p, d) ==
    LET start_list == abspath(d)
        path_list == p.dir \o <<p.stem \o p.ext>>
        i == CommonLen(start_list, path_list)
        ups == [n \in 1..(Len(start_list) - i) |-> ".."]
        rest == SubSeq(path_list, i + 1, Len(path_list))
    IN ups \o rest
relpath(p, d) == Join(relpath_parts(p, d))

\* path.join(thcrap_dir, "thcrap_loader.exe")
thcrap_loader(d) == (IF d.abs THEN "/" ELSE "./") \o Join(d.parts \o <<"thcrap_loader.exe">>)

(***************************************************************************)
(* Profile discovery.  A directory entry has a kind (regular file,         *)
(* directory, a symlink loop on which is_file() raises OSError, or a file  *)
(* that vanished after scandir so that stat() raises), a size and the      *)
(* value json.load gives for its content.                                  *)
(***************************************************************************)
SizeCap == 1048576

FileName(stem, ext) == [stem |-> stem, ext |-> ext]
name(f) == f.stem \o f.ext
\* f.name.removesuffix('.js')
removesuffix_js(f) == IF f.ext = ".js" THEN f.stem ELSE name(f)

Entry(kind, size, content) == [kind |-> kind, size |-> size, content |-> content]
ValidEntry == Entry("file", 100, "patches")
SyntaxEntry == Entry("file", 100, "syntax")
LoopEntry == Entry("loop", 0, "syntax")
Entries == { ValidEntry,
             Entry("file", SizeCap - 1, "patches"),
             Entry("file", SizeCap, "patches"),
             Entry("file", SizeCap + 1, "patches"),
             SyntaxEntry,
             Entry("file", 100, "no_patches"),
             Entry("file", 100, "empty_patches"),
             Entry("file", 100, "not_object"),
             Entry("dir", 100, "syntax"),
             LoopEntry,
             Entry("vanished", 100, "patches") }

\* is_patch_config_file(path): any exception gives False
is_patch_config_file(e) ==
    IF e.content = "syntax" THEN FALSE          \* json.load raises
    ELSE IF e.content = "not_object" THEN FALSE \* .get raises AttributeError
    ELSE e.content = "patches"                  \* truthiness of contents.get('patches')

\* the condition of the comprehension for one DirEntry: "raise", TRUE or FALSE
candidate(f, e) ==
    IF f.ext # ".js" THEN "False"
    ELSE IF e.kind = "loop" THEN "raise"        \* f.is_file()
    ELSE IF e.kind = "dir" THEN "False"
    ELSE IF e.kind = "vanished" THEN "raise"    \* f.stat()
    ELSE IF ~(e.size < SizeCap) THEN "False"
    ELSE IF is_patch_config_file(e) THEN "True" ELSE "False"

\* the list comprehension over os.scandir(thcrap_config), in enumeration order
RECURSIVE comprehension(_, _)
comprehension(order, entries) ==
    IF order = <<>> THEN [raised |-> FALSE, value |-> <<>>]
    ELSE LET c == candidate(order[1], entries[order[1]])
             rest == comprehension(Tail(order), entries)
         IN IF c = "raise" \/ rest.raised THEN [raised |-> TRUE, value |-> <<>>]
            ELSE IF c = "True"
            THEN [raised |-> FALSE, value |-> <<removesuffix_js(order[1])>> \o rest.value]
            ELSE rest

\* list_configs(): config is the state of the directory thcrap_config
list_configs(config, order) ==
    IF config.kind # "dir" THEN <<>>            \* os.scandir raises
    ELSE LET r == comprehension(order, config.entries)
         IN IF r.raised THEN <<>> ELSE r.value

\* the enumeration orders os.scandir can produce for a set of names
Orders(S) == { o \in [1..Cardinality(S) -> S] : \A i, j \in 1..Cardinality(S) : o[i] = o[j] => i = j }

NoDir == [kind |-> "absent", entries |-> <<>>]
Dir(entries) == [kind |-> "dir", entries |-> entries]

(***************************************************************************)
(* exec_game(config): the command line given to os.execvp and the value of *)
(* os.environ["LANG"] at that point.                                       *)
(***************************************************************************)
Sentinels == {"no patch", "no_patch"}

exec_game_keep_path(config, a, d, lang) ==
    IF config \notin Sentinels
    THEN [argv |-> a.args \o <<thcrap_loader(d), config \o ".js", Render(a.game_exe)>>,
          LANG |-> lang]
    ELSE [argv |-> a.args \o <<Render(a.game_exe)>>, LANG |-> "ja_JP.UTF-8"]
exec_game(config, a, d, lang) ==
    IF config \notin Sentinels
    THEN [argv |-> a.args \o <<thcrap_loader(d), config \o ".js", relpath(a.game_exe, d)>>,
          LANG |-> lang]
    ELSE [argv |-> a.args \o <<Render(a.game_exe)>>, LANG |-> "ja_JP.UTF-8"]

\* thcrap_auto.py: new_command_line
new_command_line(a, d) ==
    a.args \o <<thcrap_loader(d), "en.js", relpath(a.game_exe, d)>>

(***************************************************************************)
(* State.                                                                  *)
(***************************************************************************)
VARIABLES
    thcrap_dir,       \* args.thcrap_dir, the runtime root (fixed in a behaviour)
    fs,               \* the files under the runtime root and the zip cache
    script,           \* which program the running process executes
    pc,               \* its position
    args,             \* parsed command line
    lastrun_default,  \* the default argument of get_lastrun, bound at def time
    first_run,        \* first_run of the non-GUI branch
    configs,          \* Launcher.configs
    configvar,        \* Launcher.configvar
    checked,          \* check_exe has returned True in this process
    effects,          \* side effects this process has performed
    exit_status,      \* exit status once pc = "exited"
    message,          \* error text shown to the user (message box or traceback)
    command,          \* argv given to os.execvp, and os.environ["LANG"]
    last_handoff,     \* selection of the last successful exec of thcrap_auto_gui.py
    last_set,         \* argument of the last completed set_lastrun of this process
    history,          \* override_config_defaults saves and the first configurator run
    result            \* value returned by the last direct call of an operation

vars == <<thcrap_dir, fs, script, pc, args, lastrun_default, first_run, configs,
          configvar, checked, effects, exit_status, message, command,
          last_handoff, last_set, history, result>>

RelativeDir == [abs |-> FALSE, parts |-> <<"thcrap">>]
GlobalDir == [abs |-> TRUE, parts |-> <<"home", "share", "thcrap-launcher">>]

NoCommand == [argv |-> <<>>, LANG |-> "en_US.UTF-8"]
\* applied: how many times override_config_defaults has saved config.js;
\* first_seen: whether config.js held both overrides when the configurator
\* (thcrap.exe) ran for the first time
NoHistory == [applied |-> 0, first_seen |-> "none"]
NoResult == [op |-> "none", value |-> ""]

\* game paths given as the last argument
GamePath(dir, stem, ext, exists) == [dir |-> dir, stem |-> stem, ext |-> ext, exists |-> exists]
GoodExe == GamePath(PWD, "th18", ".exe", TRUE)
GameExes == { GoodExe,
              GamePath(PWD, "game", ".txt", TRUE),
              GamePath(<<"games", "th18x">>, "th18", ".exe", TRUE),
              GamePath(PWD, "th18", ".exe", FALSE) }

Args(patch, configurator, prefix, game_exe) ==
    [patch |-> patch, thcrap_configurator |-> configurator, args |-> prefix,
     game_exe |-> game_exe]
NoArgs == Args("None", FALSE, <<>>, GoodExe)

en_js == FileName("en", ".js")
es_js == FileName("es", ".js")

FreshFs == [dir |-> FALSE, exe |-> FALSE, zip |-> "absent", zip_cache |-> FALSE,
            config |-> NoDir, configjs |-> Absent, settings |-> Absent]

Idle == /\ script = "none" /\ pc = "idle" /\ args = NoArgs
        /\ lastrun_default = <<>> /\ first_run = FALSE
        /\ configs = <<>> /\ configvar = 0
        /\ checked = FALSE /\ effects = {} /\ exit_status = 0
        /\ message = "" /\ command = NoCommand
        /\ last_set = "none" /\ result = NoResult

\* settings documents a previous session may have left
InitSettings == { Absent, Corrupt,
                  dump([k \in {"last_run", "color"} |->
                           IF k = "last_run" THEN PyStr("es") ELSE PyStr("#000")]) }

Init == /\ thcrap_dir = RelativeDir
        /\ \E cache \in BOOLEAN, settings \in InitSettings :
              fs = [FreshFs EXCEPT !.zip_cache = cache,
                                   !.dir = settings # Absent,
                                   !.settings = settings]
        /\ last_handoff = "none"
        /\ history = NoHistory
        /\ Idle

(***************************************************************************)
(* Outcomes of the environment.                                            *)
(***************************************************************************)
\* what the download yields: a full archive, one lacking thcrap.exe, not a zip
Archives == {"full", "no_exe", "bad"}

\* what the user does in the thcrap configurator
ConfiguratorOutcomes == {"nothing", "add_en", "add_es", "break_es", "remove_es",
                         "write_config", "corrupt_config"}

Exit(code, msg) == /\ pc' = "exited" /\ exit_status' = code /\ message' = msg

(***************************************************************************)
(* Installation bootstrap and the configurator.                            *)
(***************************************************************************)
Outcome(f, e, raised, msg) == [fs |-> f, effects |-> e, raised |-> raised, msg |-> msg]

\* init_thcrap() of thcrap_auto_gui.py
init_thcrap_always_fetch(f, net_ok, archive) ==
    Outcome([f EXCEPT !.dir = TRUE, !.exe = TRUE], {"fetch", "extract"}, FALSE, "")
init_thcrap(f, net_ok, archive) ==
    LET f1 == [f EXCEPT !.dir = TRUE]
        e1 == IF f.dir THEN {} ELSE {"mkdir"}
    IN IF f.exe THEN Outcome(f1, e1, FALSE, "")
       ELSE IF f.zip_cache
       THEN Outcome(f1, e1, TRUE, "name 'thcrap_zip' is not defined")
       ELSE IF ~net_ok
       THEN Outcome(f1, e1 \cup {"fetch"}, TRUE, "<urlopen error>")
       ELSE IF archive = "bad"
       THEN Outcome(f1, e1 \cup {"fetch"}, TRUE, "File is not a zip file")
       ELSE Outcome([f1 EXCEPT !.exe = (archive = "full")],
                    e1 \cup {"fetch", "extract"}, FALSE, "")

\* the install block of thcrap_auto.py
install_block(f, net_ok, archive) ==
    LET f1 == [f EXCEPT !.dir = TRUE]
        e1 == IF f.dir THEN {} ELSE {"mkdir"}
        zip == IF f.zip = "absent" THEN archive ELSE f.zip
        e2 == IF f.zip = "absent" THEN e1 \cup {"fetch", "save"} ELSE e1
    IN IF f.exe THEN Outcome(f1, e1, FALSE, "")
       ELSE IF f.zip = "absent" /\ ~net_ok
       THEN Outcome(f1, e1 \cup {"fetch"}, TRUE, "<urlopen error>")
       ELSE IF zip = "bad"
       THEN Outcome([f1 EXCEPT !.zip = zip], e2, TRUE, "Unknown archive format")
       ELSE Outcome([f1 EXCEPT !.zip = "absent", !.exe = (zip = "full")],
                    e2 \cup {"extract", "unlink"}, FALSE, "")

\* entries with file n set to e, and with file n removed
WithEntry(entries, n, e) ==
    [f \in DOMAIN entries \cup {n} |-> IF f = n THEN e ELSE entries[f]]
WithoutEntry(entries, n) == [f \in DOMAIN entries \ {n} |-> entries[f]]

\* what the configurator (thcrap.exe under the wrapper) leaves on disk
Configure(f, outcome) ==
    IF ~f.exe \/ outcome = "nothing" THEN f
    ELSE IF outcome = "add_en"
    THEN [f EXCEPT !.config = Dir(WithEntry(f.config.entries, en_js, ValidEntry))]
    ELSE IF outcome = "add_es"
    THEN [f EXCEPT !.config = Dir(WithEntry(f.config.entries, es_js, ValidEntry))]
    ELSE IF outcome = "break_es"
    THEN [f EXCEPT !.config = Dir(WithEntry(f.config.entries, es_js, SyntaxEntry))]
    ELSE IF outcome = "remove_es"
    THEN [f EXCEPT !.config = IF f.config.kind = "dir"
                              THEN Dir(WithoutEntry(f.config.entries, es_js))
                              ELSE f.config]
    ELSE IF outcome = "write_config"
    THEN [f EXCEPT !.config = Dir(f.config.entries),
                   !.configjs = dump([k \in {"background_updates", "codepage"} |->
                                         IF k = "codepage" THEN PyStr("x") ELSE PyBool(TRUE)])]
    ELSE [f EXCEPT !.config = Dir(f.config.entries), !.configjs = Corrupt]

\* run_thcrap_config() of thcrap_auto_gui.py
run_thcrap_config(f, outcome) ==
    IF f.config.kind = "absent"
    THEN LET o == override_config_defaults(f.configjs)
         IN IF o.raised
            THEN Outcome([f EXCEPT !.config = Dir(<<>>)], {"mkdir"}, TRUE, "JSONDecodeError")
            ELSE Outcome(Configure([f EXCEPT !.config = Dir(<<>>), !.configjs = o.file],
                                   outcome),
                         {"mkdir", "save", "subprocess"}, FALSE, "")
    ELSE Outcome(Configure(f, outcome), {"subprocess"}, FALSE, "")

\* config.js holds both overrides
HasOverrides(file) ==
    /\ file.kind = "json"
    /\ \A k \in DOMAIN overrides :
          k \in DOMAIN file.text /\ file.text[k] = json_dumps(overrides[k])

\* the history after a configurator run that found config.js as file
Invoked(h, file) ==
    IF h.first_seen # "none" THEN h
    ELSE [h EXCEPT !.first_seen = IF HasOverrides(file) THEN "overrides" ELSE "no_overrides"]
Applied(h) == [h EXCEPT !.applied = @ + 1]

\* the history after run_thcrap_config() from filesystem f
history_after_run_thcrap_config(h, f) ==
    LET o == override_config_defaults(f.configjs)
        preseed == f.config.kind = "absent"
        h1 == IF preseed /\ ~o.raised THEN Applied(h) ELSE h
        seen == IF preseed THEN o.file ELSE f.configjs
    IN IF preseed /\ o.raised THEN h
       ELSE IF f.exe THEN Invoked(h1, seen) ELSE h1

\* list.index(x), 0-based; the caller checks membership
Range(q) == { q[i] : i \in 1..Len(q) }
index(q, x) == (CHOOSE i \in 1..Len(q) : q[i] = x /\ \A j \in 1..(i - 1) : q[j] # x) - 1

\* Launcher.refresh_configs: the new configvar for a list of configs
refresh_configs(cfgs, var, default) ==
    LET lastrun == get_lastrun(default)
    IN IF lastrun \in Range(cfgs) THEN index(cfgs, lastrun) ELSE var

ResetProc == /\ first_run' = FALSE /\ configs' = <<>> /\ configvar' = 0
             /\ checked' = FALSE /\ effects' = {} /\ command' = NoCommand
             /\ last_set' = "none"

Stopped == pc \in {"idle", "exited", "exec"}
Prefix == <<"wine">>

(***************************************************************************)
(* thcrap_auto_gui.py --gui                                                *)
(***************************************************************************)
\* module level up to the def of get_lastrun, whose default is load_settings()
StartGui(game) ==
    /\ Stopped
    /\ script' = "gui"
    /\ args' = Args("None", FALSE, Prefix, game)
    /\ ResetProc
    /\ LET settings == load_json(fs.settings)
       IN IF settings.raised
          THEN /\ Exit(1, "JSONDecodeError")
               /\ lastrun_default' = <<>>
          ELSE /\ pc' = "gui_check"
               /\ exit_status' = 0 /\ message' = ""
               /\ lastrun_default' = settings.value
    /\ UNCHANGED <<history, thcrap_dir, fs, last_handoff, result>>

\* try: check_exe(game_exe) ... except: showerror
GuiCheckExe ==
    /\ script = "gui" /\ pc = "gui_check"
    /\ LET m == check_exe(args.game_exe)
       IN IF m = ""
          THEN /\ checked' = TRUE /\ pc' = "gui_init"
               /\ UNCHANGED <<exit_status, message>>
          ELSE /\ Exit(0, m)
               /\ UNCHANGED checked
    /\ UNCHANGED <<history, thcrap_dir, fs, script, args, lastrun_default, first_run, configs,
                   configvar, effects, command, last_handoff, last_set, result>>

\* init_thcrap() inside the try
GuiInitThcrap ==
    /\ script = "gui" /\ pc = "gui_init"
    /\ \E net_ok \in BOOLEAN, archive \in Archives :
          LET r == init_thcrap(fs, net_ok, archive)
          IN /\ fs' = r.fs
             /\ effects' = effects \cup r.effects
             /\ IF r.raised
                THEN Exit(0, r.msg)
                ELSE pc' = "gui_launcher" /\ UNCHANGED <<exit_status, message>>
    /\ UNCHANGED <<history, thcrap_dir, script, args, lastrun_default, first_run, configs,
                   configvar, checked, command, last_handoff, last_set, result>>

\* Launcher(['no patch', *list_configs()]) up to root.mainloop()
GuiLauncher ==
    /\ script = "gui" /\ pc = "gui_launcher"
    /\ IF load_json(fs.settings).raised
       THEN /\ Exit(0, "JSONDecodeError")
            /\ UNCHANGED <<configs, configvar>>
       ELSE \E order \in Orders(DOMAIN fs.config.entries) :
               LET cfgs == <<"no patch">> \o list_configs(fs.config, order)
               IN /\ configs' = cfgs
                  /\ configvar' = refresh_configs(cfgs, 0, lastrun_default)
                  /\ pc' = "mainloop"
                  /\ UNCHANGED <<exit_status, message>>
    /\ UNCHANGED <<history, thcrap_dir, fs, script, args, lastrun_default, first_run,
                   checked, effects, command, last_handoff, last_set, result>>

\* the user clicks radio button i
Select(i) ==
    /\ script = "gui" /\ pc = "mainloop"
    /\ i \in 0..(Len(configs) - 1)
    /\ configvar' = i
    /\ UNCHANGED <<history, thcrap_dir, fs, script, pc, args, lastrun_default, first_run, configs,
                   checked, effects, exit_status, message, command, last_handoff,
                   last_set, result>>

\* Launcher.run_thcrap: the "Thcrap Config" button
RunThcrap ==
    /\ script = "gui" /\ pc = "mainloop"
    /\ \E outcome \in ConfiguratorOutcomes :
          LET r == run_thcrap_config(fs, outcome)
          IN /\ fs' = r.fs
             /\ history' = history_after_run_thcrap_config(history, fs)
             /\ effects' = effects \cup r.effects
             /\ IF r.raised
                THEN /\ message' = r.msg
                     /\ UNCHANGED <<configs, configvar>>
                ELSE \E order \in Orders(DOMAIN r.fs.config.entries) :
                        LET cfgs == <<"no patch">> \o list_configs(r.fs.config, order)
                        IN /\ configs' = cfgs
                           /\ configvar' = refresh_configs(cfgs, configvar, lastrun_default)
                           /\ UNCHANGED message
    /\ UNCHANGED <<thcrap_dir, script, pc, args, lastrun_default, first_run, checked,
                   exit_status, command, last_handoff, last_set, result>>

\* Launcher.quit: the window is destroyed and the script runs off its end
Quit ==
    /\ script = "gui" /\ pc = "mainloop"
    /\ Exit(0, message)
    /\ UNCHANGED <<history, thcrap_dir, fs, script, args, lastrun_default, first_run, configs,
                   configvar, checked, effects, command, last_handoff, last_set, result>>

\* Launcher.start_game: the "Play" button
StartGame ==
    /\ script = "gui" /\ pc = "mainloop"
    /\ IF configvar >= Len(configs)
       THEN /\ message' = "IndexError: list index out of range"
            /\ UNCHANGED <<fs, pc, effects, exit_status, command, last_handoff, last_set>>
       ELSE LET config_name == configs[configvar + 1]
                s == set_lastrun(fs.settings, config_name)
            IN IF s.raised
               THEN /\ Exit(0, "JSONDecodeError")
                    /\ UNCHANGED <<fs, effects, command, last_handoff, last_set>>
               ELSE /\ fs' = [fs EXCEPT !.settings = s.file]
                    /\ effects' = effects \cup {"save"}
                    /\ last_set' = config_name
                    /\ command' = exec_game(config_name, args, thcrap_dir, command.LANG)
                    /\ \E exec_ok \in BOOLEAN :
                          IF exec_ok
                          THEN /\ pc' = "exec" /\ last_handoff' = config_name
                               /\ UNCHANGED <<exit_status, message>>
                          ELSE /\ Exit(0, "FileNotFoundError")
                               /\ UNCHANGED last_handoff
    /\ UNCHANGED <<history, thcrap_dir, script, args, lastrun_default, first_run, configs,
                   configvar, checked, result>>

(***************************************************************************)
(* thcrap_auto_gui.py without --gui                                        *)
(***************************************************************************)
Patches == {"None", "en", "es", "no_patch"}
\* game paths drawn for the non-GUI branch: one that passes the guard, one that fails it
CliGameExes == { GoodExe, GamePath(PWD, "game", ".txt", TRUE) }

StartCli(patch, configurator, game) ==
    /\ Stopped
    /\ script' = "cli"
    /\ args' = Args(patch, configurator, Prefix, game)
    /\ ResetProc
    /\ LET settings == load_json(fs.settings)
       IN IF settings.raised
          THEN /\ Exit(1, "JSONDecodeError")
               /\ lastrun_default' = <<>>
          ELSE /\ pc' = "cli_init"
               /\ exit_status' = 0 /\ message' = ""
               /\ lastrun_default' = settings.value
    /\ UNCHANGED <<history, thcrap_dir, fs, last_handoff, result>>

\* first_run = not path.exists(thcrap_config); init_thcrap()
CliInitThcrap ==
    /\ script = "cli" /\ pc = "cli_init"
    /\ first_run' = (fs.config.kind = "absent")
    /\ \E net_ok \in BOOLEAN, archive \in Archives :
          LET r == init_thcrap(fs, net_ok, archive)
          IN /\ fs' = r.fs
             /\ effects' = effects \cup r.effects
             /\ IF r.raised
                THEN Exit(1, r.msg)
                ELSE pc' = "cli_configurator" /\ UNCHANGED <<exit_status, message>>
    /\ UNCHANGED <<history, thcrap_dir, script, args, lastrun_default, configs, configvar,
                   checked, command, last_handoff, last_set, result>>

\* if args.thcrap_configurator: ...; sys.exit()  elif first_run: ...
CliConfigurator ==
    /\ script = "cli" /\ pc = "cli_configurator"
    /\ IF args.thcrap_configurator \/ first_run
       THEN \E outcome \in ConfiguratorOutcomes :
               LET r == run_thcrap_config(fs, outcome)
               IN /\ fs' = r.fs
                  /\ history' = history_after_run_thcrap_config(history, fs)
                  /\ effects' = effects \cup r.effects
                  /\ IF r.raised THEN Exit(1, r.msg)
                     ELSE IF args.thcrap_configurator THEN Exit(0, "")
                     ELSE pc' = "cli_check" /\ UNCHANGED <<exit_status, message>>
       ELSE /\ pc' = "cli_check"
            /\ UNCHANGED <<fs, effects, exit_status, message, history>>
    /\ UNCHANGED <<thcrap_dir, script, args, lastrun_default, first_run, configs,
                   configvar, checked, command, last_handoff, last_set, result>>

\* check_exe(game_exe), uncaught
CliCheckExe ==
    /\ script = "cli" /\ pc = "cli_check"
    /\ LET m == check_exe(args.game_exe)
       IN IF m = ""
          THEN /\ checked' = TRUE /\ pc' = "cli_exec"
               /\ UNCHANGED <<exit_status, message>>
          ELSE /\ Exit(1, m)
               /\ UNCHANGED checked
    /\ UNCHANGED <<history, thcrap_dir, fs, script, args, lastrun_default, first_run, configs,
                   configvar, effects, command, last_handoff, last_set, result>>

\* if args.patch in list_configs(): exec_game(args.patch)
CliExec ==
    /\ script = "cli" /\ pc = "cli_exec"
    /\ \E order \in Orders(DOMAIN fs.config.entries), exec_ok \in BOOLEAN :
          IF args.patch \in Range(list_configs(fs.config, order))
          THEN /\ command' = exec_game(args.patch, args, thcrap_dir, command.LANG)
               /\ IF exec_ok
                  THEN /\ pc' = "exec" /\ last_handoff' = args.patch
                       /\ UNCHANGED <<exit_status, message>>
                  ELSE /\ Exit(1, "FileNotFoundError")
                       /\ UNCHANGED last_handoff
          ELSE /\ Exit(0, "")
               /\ UNCHANGED <<command, last_handoff>>
    /\ UNCHANGED <<history, thcrap_dir, fs, script, args, lastrun_default, first_run, configs,
                   configvar, checked, effects, last_set, result>>

(***************************************************************************)
(* thcrap_auto.py                                                          *)
(***************************************************************************)
StartAuto(game) ==
    /\ Stopped
    /\ script' = "auto"
    /\ args' = Args("None", FALSE, Prefix, game)
    /\ ResetProc
    /\ pc' = "auto_check" /\ exit_status' = 0 /\ message' = ""
    /\ lastrun_default' = <<>>
    /\ UNCHANGED <<history, thcrap_dir, fs, last_handoff, result>>

\* check_exe(GAME_EXE)
AutoCheckExe ==
    /\ script = "auto" /\ pc = "auto_check"
    /\ LET m == check_exe(args.game_exe)
       IN IF m = ""
          THEN /\ checked' = TRUE /\ pc' = "auto_install"
               /\ UNCHANGED <<exit_status, message>>
          ELSE /\ Exit(1, m)
               /\ UNCHANGED checked
    /\ UNCHANGED <<history, thcrap_dir, fs, script, args, lastrun_default, first_run, configs,
                   configvar, effects, command, last_handoff, last_set, result>>

\* make the directory, download and unpack
AutoInstall ==
    /\ script = "auto" /\ pc = "auto_install"
    /\ \E net_ok \in BOOLEAN, archive \in Archives :
          LET r == install_block(fs, net_ok, archive)
          IN /\ fs' = r.fs
             /\ effects' = effects \cup r.effects
             /\ IF r.raised
                THEN Exit(1, r.msg)
                ELSE pc' = "auto_setup" /\ UNCHANGED <<exit_status, message>>
    /\ UNCHANGED <<history, thcrap_dir, script, args, lastrun_default, first_run, configs,
                   configvar, checked, command, last_handoff, last_set, result>>

\* is_thcrap_installed(): path.exists(enjs)
is_thcrap_installed(f) == f.config.kind = "dir" /\ en_js \in DOMAIN f.config.entries

\* initial setup: run thcrap.exe, check, override_config_defaults()
AutoSetup ==
    /\ script = "auto" /\ pc = "auto_setup"
    /\ IF is_thcrap_installed(fs)
       THEN /\ pc' = "auto_exec"
            /\ UNCHANGED <<fs, effects, exit_status, message, history>>
       ELSE \E outcome \in ConfiguratorOutcomes :
               LET f1 == Configure(fs, outcome)
                   o == override_config_defaults(f1.configjs)
                   h1 == IF fs.exe THEN Invoked(history, fs.configjs) ELSE history
               IN /\ history' = IF is_thcrap_installed(f1) /\ ~o.raised
                                 THEN Applied(h1) ELSE h1
                  /\ effects' = effects \cup {"subprocess"}
                                \cup (IF is_thcrap_installed(f1) /\ ~o.raised
                                      THEN {"save"} ELSE {})
                  /\ IF ~is_thcrap_installed(f1)
                     THEN /\ fs' = f1
                          /\ Exit(1, "Thcrap installation appears to have failed.")
                     ELSE IF o.raised
                     THEN fs' = f1 /\ Exit(1, "JSONDecodeError")
                     ELSE /\ fs' = [f1 EXCEPT !.configjs = o.file]
                          /\ pc' = "auto_exec"
                          /\ UNCHANGED <<exit_status, message>>
    /\ UNCHANGED <<thcrap_dir, script, args, lastrun_default, first_run, configs,
                   configvar, checked, command, last_handoff, last_set, result>>

\* os.execvp(new_command_line[0], new_command_line)
AutoExec ==
    /\ script = "auto" /\ pc = "auto_exec"
    /\ command' = [argv |-> new_command_line(args, thcrap_dir), LANG |-> command.LANG]
    /\ \E exec_ok \in BOOLEAN :
          IF exec_ok
          THEN pc' = "exec" /\ UNCHANGED <<exit_status, message>>
          ELSE Exit(1, "FileNotFoundError")
    /\ UNCHANGED <<history, thcrap_dir, fs, script, args, lastrun_default, first_run, configs,
                   configvar, checked, effects, last_handoff, last_set, result>>

Next ==
    \/ \E game \in GameExes : StartGui(game)
    \/ GuiCheckExe
    \/ GuiInitThcrap
    \/ GuiLauncher
    \/ \E i \in 0..2 : Select(i)
    \/ RunThcrap
    \/ Quit
    \/ StartGame
    \/ \E patch \in Patches, configurator \in BOOLEAN, game \in CliGameExes :
          StartCli(patch, configurator, game)
    \/ CliInitThcrap
    \/ CliConfigurator
    \/ CliCheckExe
    \/ CliExec
    \/ \E game \in GameExes : StartAuto(game)
    \/ AutoCheckExe
    \/ AutoInstall
    \/ AutoSetup
    \/ AutoExec

Spec == Init /\ [][Next]_vars

TypeOK == /\ pc \in {"idle", "exited", "exec", "gui_check", "gui_init", "gui_launcher",
                     "mainloop", "cli_init", "cli_configurator", "cli_check", "cli_exec",
                     "auto_check", "auto_install", "auto_setup", "auto_exec", "api"}
          /\ exit_status \in {0, 1}
          /\ fs.config.kind = "absent" => fs.configjs = Absent

(***************************************************************************)
(* Direct calls of the settings and document operations, from every        *)
(* drawn pair of documents.                                                *)
(***************************************************************************)
Min(a, b) == IF a < b THEN a ELSE b
OtherKeySeq == <<"color", "theme">>
SettingsKeys == {"last_run"} \cup { OtherKeySeq[i] : i \in 1..Min(MaxOtherKeys, Len(OtherKeySeq)) }
ConfigOtherKeySeq == <<"codepage", "dat_dump">>
ConfigKeys == {"background_updates", "update_others"}
              \cup { ConfigOtherKeySeq[i] : i \in 1..Min(MaxOtherKeys, Len(ConfigOtherKeySeq)) }

SettingsDocs ==
    UNION { { d \in [S -> {PyStr("en"), PyStr("es"), PyStr("#000"), PyBool(TRUE)}] :
                \A k \in S : (k = "last_run") <=> (d[k] \in {PyStr("en"), PyStr("es")}) }
            : S \in SUBSET SettingsKeys }
ConfigDocs ==
    UNION { { d \in [S -> {PyStr("x"), PyBool(TRUE), PyBool(FALSE)}] :
                \A k \in S : /\ k \in {"background_updates", "update_others"} => d[k].t = "bool"
                             /\ k \notin {"background_updates", "update_others"}
                                   => d[k] \in {PyStr("x"), PyBool(TRUE)} }
            : S \in SUBSET ConfigKeys }

ApiProc == /\ script = "api" /\ pc = "api" /\ args = NoArgs
           /\ first_run = FALSE /\ configs = <<>> /\ configvar = 0
           /\ checked = FALSE /\ effects = {} /\ exit_status = 0
           /\ message = "" /\ last_set = "none" /\ result = NoResult
           /\ last_handoff = "none"
           /\ history = NoHistory

InitStore ==
    /\ thcrap_dir = RelativeDir
    /\ \E settings \in {Absent} \cup { dump(d) : d \in SettingsDocs },
          configjs \in {Absent, Corrupt} \cup { dump(d) : d \in ConfigDocs } :
          /\ fs = [FreshFs EXCEPT !.dir = TRUE, !.exe = TRUE, !.config = Dir(<<>>),
                                  !.configjs = configjs, !.settings = settings]
          /\ lastrun_default = load_json(settings).value
    /\ command = NoCommand
    /\ ApiProc

CallSetLastRun(config_name) ==
    /\ pc = "api"
    /\ LET s == set_lastrun(fs.settings, config_name)
       IN /\ fs' = [fs EXCEPT !.settings = s.file]
          /\ last_set' = IF s.raised THEN last_set ELSE config_name
          /\ result' = [op |-> IF s.raised THEN "set_lastrun_raised" ELSE "set_lastrun",
                        value |-> config_name]
    /\ UNCHANGED <<history, thcrap_dir, script, pc, args, lastrun_default, first_run, configs,
                   configvar, checked, effects, exit_status, message, command, last_handoff>>

\* get_lastrun() with no argument
CallGetLastRun ==
    /\ pc = "api"
    /\ result' = [op |-> "get_lastrun", value |-> get_lastrun(lastrun_default)]
    /\ UNCHANGED <<history, thcrap_dir, fs, script, pc, args, lastrun_default, first_run, configs,
                   configvar, checked, effects, exit_status, message, command,
                   last_handoff, last_set>>

CallOverrideConfigDefaults ==
    /\ pc = "api"
    /\ LET o == override_config_defaults(fs.configjs)
       IN /\ fs' = [fs EXCEPT !.configjs = o.file]
          /\ result' = [op |-> "override_config_defaults",
                        value |-> IF o.raised THEN "raised" ELSE "saved"]
    /\ UNCHANGED <<history, thcrap_dir, script, pc, args, lastrun_default, first_run, configs,
                   configvar, checked, effects, exit_status, message, command,
                   last_handoff, last_set>>

\* load_settings() and load_json(thcrap_configjs), called directly
Loaded(file) == LET l == load_json(file)
                IN IF l.raised THEN "raised"
                   ELSE IF DOMAIN l.value = {} THEN "empty" ELSE "document"

CallLoadJson(path) ==
    /\ pc = "api"
    /\ result' = [op |-> "load_json:" \o path,
                  value |-> Loaded(IF path = "settings" THEN fs.settings ELSE fs.configjs)]
    /\ UNCHANGED <<history, thcrap_dir, fs, script, pc, args, lastrun_default, first_run, configs,
                   configvar, checked, effects, exit_status, message, command,
                   last_handoff, last_set>>

\* save_json opens the file with "w", which truncates it, and only then
\* dumps: another launcher process stopped in between leaves the settings
\* file as a document that does not parse
InterruptedSave ==
    /\ pc = "api"
    /\ fs.settings.kind # "corrupt"
    /\ fs' = [fs EXCEPT !.settings = Corrupt]
    /\ result' = [op |-> "interrupted_save", value |-> ""]
    /\ UNCHANGED <<history, thcrap_dir, script, pc, args, lastrun_default, first_run, configs,
                   configvar, checked, effects, exit_status, message, command,
                   last_handoff, last_set>>

NextStore ==
    \/ \E config_name \in {"en", "es", "no patch"} : CallSetLastRun(config_name)
    \/ CallGetLastRun
    \/ CallOverrideConfigDefaults
    \/ \E path \in {"settings", "configjs"} : CallLoadJson(path)
    \/ InterruptedSave

SpecStore == InitStore /\ [][NextStore]_vars

(***************************************************************************)
(* Direct calls of list_configs, from every drawn profile directory.       *)
(***************************************************************************)
FileNameSeq == <<FileName("en", ".js"), FileName("es", ".js"),
                 FileName("en", ".txt"), FileName("de", ".js")>>
FileNames == { FileNameSeq[i] : i \in 1..Min(MaxFiles, Len(FileNameSeq)) }

Unreadable == [kind |-> "unreadable", entries |-> <<>>]
DrawnDirs == {NoDir, Unreadable}
             \cup { Dir(e) : e \in UNION { [S -> Entries] : S \in SUBSET FileNames } }

InitList ==
    /\ thcrap_dir = RelativeDir
    /\ \E config \in DrawnDirs :
          fs = [FreshFs EXCEPT !.dir = TRUE, !.exe = TRUE, !.config = config]
    /\ lastrun_default = <<>>
    /\ command = NoCommand
    /\ ApiProc

CallListConfigs ==
    /\ pc = "api"
    /\ \E order \in Orders(DOMAIN fs.config.entries) :
          result' = [op |-> "list_configs", value |-> list_configs(fs.config, order)]
    /\ UNCHANGED <<history, thcrap_dir, fs, script, pc, args, lastrun_default, first_run, configs,
                   configvar, checked, effects, exit_status, message, command,
                   last_handoff, last_set>>

NextList == CallListConfigs

SpecList == InitList /\ [][NextList]_vars

(***************************************************************************)
(* Direct calls of exec_game and of thcrap_auto.py's command line, from    *)
(* every drawn wrapper prefix, game path, runtime root and LANG.           *)
(***************************************************************************)
Tokens == {"wine", "run"}
Prefixes == UNION { [1..n -> Tokens] : n \in 0..MaxArgs }
DrawnGames == { GamePath(dir, "th18", ".exe", TRUE) :
                  dir \in { PWD, PWD \o <<"sub">>, <<"games", "th18x">>, <<"mnt">> } }

InitExec ==
    /\ thcrap_dir \in {RelativeDir, GlobalDir}
    /\ fs = [FreshFs EXCEPT !.dir = TRUE, !.exe = TRUE]
    /\ \E prefix \in Prefixes, game \in DrawnGames :
          args = Args("None", FALSE, prefix, game)
    /\ \E lang \in {"en_US.UTF-8", "unset"} : command = [argv |-> <<>>, LANG |-> lang]
    /\ lastrun_default = <<>>
    /\ script = "api" /\ pc = "api"
    /\ first_run = FALSE /\ configs = <<>> /\ configvar = 0
    /\ checked = FALSE /\ effects = {} /\ exit_status = 0
    /\ message = "" /\ last_set = "none" /\ result = NoResult
    /\ last_handoff = "none"
    /\ history = NoHistory

\* exec_game(config) up to os.execvp; argparse gives args.args at least one element
CallExecGame(config) ==
    /\ pc = "api"
    /\ Len(args.args) >= 1
    /\ command' = exec_game(config, args, thcrap_dir, command.LANG)
    /\ result' = [op |-> "exec_game", value |-> config]
    /\ UNCHANGED <<history, thcrap_dir, fs, script, pc, args, lastrun_default, first_run, configs,
                   configvar, checked, effects, exit_status, message, last_handoff, last_set>>

\* thcrap_auto.py: new_command_line, with thcrap_dir = ./thcrap
CallNewCommandLine ==
    /\ pc = "api"
    /\ thcrap_dir = RelativeDir
    /\ command' = [argv |-> new_command_line(args, thcrap_dir), LANG |-> command.LANG]
    /\ result' = [op |-> "new_command_line", value |-> "en"]
    /\ UNCHANGED <<history, thcrap_dir, fs, script, pc, args, lastrun_default, first_run, configs,
                   configvar, checked, effects, exit_status, message, last_handoff, last_set>>

NextExec ==
    \/ \E config \in {"en", "es", "no patch", "no_patch"} : CallExecGame(config)
    \/ CallNewCommandLine

SpecExec == InitExec /\ [][NextExec]_vars

(***************************************************************************)
(* Properties.                                                             *)
(***************************************************************************)

\* C1: in every run, no filesystem write, network fetch, archive extraction
\* or configurator subprocess happens before check_exe has passed on the
\* game path; when the guard fails none of them has happened.
Claim_C1 == ~checked => effects = {}

\* C2: within one process, get_lastrun() called after set_lastrun(n) has
\* completed returns n, not the value stored when the program started.
Claim_C2 == (result.op = "get_lastrun" /\ last_set # "none") => result.value = last_set

\* the document after a shallow override of the keys of o in the file before
ShallowOverride(before, after, o) ==
    /\ after.kind = "json"
    /\ DOMAIN after.text = DOMAIN before.text \cup DOMAIN o
    /\ \A k \in DOMAIN o : load_json(after).value[k] = o[k]
    /\ \A k \in DOMAIN before.text \ DOMAIN o : after.text[k] = before.text[k]

\* C3: every merge-and-save is a shallow override: after set_lastrun(n) the
\* settings document has last_run = n and every other top-level key keeps its
\* value; after override_config_defaults the config document has
\* background_updates = false and update_others = false and every other key
\* keeps its value; no key outside the override set is deleted.
Thm_C3 ==
    [][ /\ result'.op = "set_lastrun"
           => ShallowOverride(fs.settings, fs'.settings,
                              [k \in {"last_run"} |-> PyStr(result'.value)])
        /\ (result'.op = "override_config_defaults" /\ result'.value = "saved")
           => ShallowOverride(fs.configjs, fs'.configjs,
                              [k \in {"background_updates", "update_others"} |-> PyBool(FALSE)])
      ]_vars

Witness_C3 ==
    /\ result.op = "override_config_defaults" /\ result.value = "saved"
    /\ last_set = "es"
    /\ fs.settings = dump([k \in {"last_run", "color"} |->
                              IF k = "last_run" THEN PyStr("es") ELSE PyStr("#000")])
    /\ fs.configjs = dump([k \in {"background_updates", "update_others", "codepage"} |->
                              IF k = "codepage" THEN PyStr("x") ELSE PyBool(FALSE)])

\* the messages of a failed guard or a failed installation
GuardFailed == pc = "exited" /\ message # "" /\ message = check_exe(args.game_exe)
BootstrapFailed ==
    /\ pc = "exited"
    /\ message \in {"<urlopen error>", "File is not a zip file", "Unknown archive format",
                    "name 'thcrap_zip' is not defined",
                    "Thcrap installation appears to have failed."}

\* C4: any failure of the target guard or of the installation bootstrap
\* terminates the process with a non-zero exit status and a message, without
\* a handoff, in GUI mode as well as in non-GUI mode.
Claim_C4 == (GuardFailed \/ BootstrapFailed) => (exit_status # 0 /\ command.argv = <<>>)

\* C5: whenever init_thcrap (or the install block of thcrap_auto) returns
\* without error, the runtime executable exists under the runtime root.
Claim_C5 == pc \in {"gui_launcher", "cli_configurator", "auto_setup"} => fs.exe

\* C6: when the runtime root and the runtime executable already exist,
\* init_thcrap and the install block perform no network fetch, no extraction
\* and no other filesystem write.
Thm_C6 ==
    [][ (pc \in {"gui_init", "cli_init", "auto_install"} /\ fs.dir /\ fs.exe)
        => (fs' = fs /\ effects' = effects /\ pc' \in {"gui_launcher", "cli_configurator", "auto_setup"})
      ]_vars

Witness_C6 == pc \in {"gui_launcher", "cli_configurator"} /\ fs.exe /\ effects = {}

\* the four checks of a profile, for a name present in the directory
AllFourChecksPass(f) ==
    /\ f.ext = ".js"
    /\ fs.config.entries[f].kind = "file"
    /\ fs.config.entries[f].size < SizeCap
    /\ fs.config.entries[f].content = "patches"

\* C7: list_configs returns the name of a directory entry if and only if all
\* four checks pass for it (suffix .js, regular file, size below 2^20, truthy
\* 'patches').
Claim_C7 ==
    result.op = "list_configs" =>
        \A f \in DOMAIN fs.config.entries :
            (removesuffix_js(f) \in Range(result.value)) <=> AllFourChecksPass(f)

\* C8: list_configs never raises; a missing or unenumerable directory yields
\* the empty sequence, and a failed check or an exception on one candidate
\* removes only that candidate: every other candidate that passes all four
\* checks is still in the result.
Claim_C8 ==
    result.op = "list_configs" =>
        /\ fs.config.kind # "dir" => result.value = <<>>
        /\ \A f \in DOMAIN fs.config.entries :
              AllFourChecksPass(f) => removesuffix_js(f) \in Range(result.value)

\* os.path.normpath(os.path.join(base, rel)) on components
RECURSIVE Resolve(_, _)
Resolve(base, rel) ==
    IF rel = <<>> THEN base
    ELSE IF rel[1] = ".." THEN Resolve(SubSeq(base, 1, Len(base) - 1), Tail(rel))
    ELSE Resolve(Append(base, rel[1]), Tail(rel))

\* C9: exec_game builds, for the unpatched sentinel, the wrapper prefix
\* followed by the game path unchanged, with LANG forced; otherwise the
\* wrapper prefix followed by the loader, "<selection>.js" and the game path
\* relative to the runtime root, with the environment not altered.
Thm_C9 ==
    [][ LET P == args.args
            g == args.game_exe
            rel == relpath_parts(g, thcrap_dir)
        IN /\ result'.op = "exec_game" =>
                 IF result'.value \in {"no patch", "no_patch"}
                 THEN /\ command'.argv = P \o <<Render(g)>>
                      /\ command'.LANG = "ja_JP.UTF-8"
                 ELSE /\ command'.argv = P \o <<thcrap_loader(thcrap_dir),
                                                 result'.value \o ".js", Join(rel)>>
                      /\ Resolve(abspath(thcrap_dir), rel) = g.dir \o <<g.stem \o g.ext>>
                      /\ command'.LANG = command.LANG
           /\ result'.op = "new_command_line" =>
                 /\ command'.argv = P \o <<thcrap_loader(thcrap_dir), "en.js", Join(rel)>>
                 /\ command'.LANG = command.LANG
      ]_vars

Witness_C9 ==
    /\ result.op = "exec_game" /\ result.value = "en"
    /\ thcrap_dir = RelativeDir
    /\ command = [argv |-> <<"wine", "run", "./thcrap/thcrap_loader.exe", "en.js", "../th18.exe">>,
                  LANG |-> "en_US.UTF-8"]

\* C10: once some handoff has succeeded, the settings document's last_run
\* equals the selection of the most recent successful handoff, whether it
\* came from the GUI or from -p.
Claim_C10 ==
    last_handoff # "none" =>
        /\ fs.settings.kind = "json"
        /\ "last_run" \in DOMAIN fs.settings.text
        /\ load_json(fs.settings).value["last_run"] = PyStr(last_handoff)

\* C11: across any sequence of runs and configurator invocations against one
\* runtime root, the default overrides are applied to config.js exactly once,
\* and before the configurator runs for the first time, so that the first
\* configurator run already sees both overrides.
Claim_C11 ==
    /\ history.applied <= 1
    /\ history.first_seen # "none" => (history.applied = 1 /\ history.first_seen = "overrides")

\* C12: in non-GUI mode a run given -p no_patch that passes the guard and the
\* bootstrap ends by executing the game without thcrap: the process image is
\* replaced with the wrapper arguments followed by the game path.  (A run
\* whose os.execvp itself failed is not counted.)
Claim_C12 ==
    (/\ script = "cli" /\ args.patch = "no_patch" /\ checked
     /\ pc \in {"exited", "exec"} /\ message # "FileNotFoundError")
    => (pc = "exec" /\ command.argv = args.args \o <<Render(args.game_exe)>>)

\* C13: load distinguishes absent from corrupt: a missing file loads as the
\* empty document, a file that does not parse raises to the caller; and when
\* set_lastrun or override_config_defaults meets a corrupt file it raises
\* without writing, so the corrupt file is left exactly as it was.
Thm_C13 ==
    [][ /\ result'.op = "load_json:settings"
           => /\ fs.settings.kind = "absent" => result'.value = "empty"
              /\ fs.settings.kind = "corrupt" => result'.value = "raised"
        /\ result'.op = "load_json:configjs"
           => /\ fs.configjs.kind = "absent" => result'.value = "empty"
              /\ fs.configjs.kind = "corrupt" => result'.value = "raised"
        /\ (result'.op \in {"set_lastrun", "set_lastrun_raised"} /\ fs.settings.kind = "corrupt")
           => (result'.op = "set_lastrun_raised" /\ fs'.settings = fs.settings)
        /\ (result'.op = "override_config_defaults" /\ fs.configjs.kind = "corrupt")
           => (result'.value = "raised" /\ fs'.configjs = fs.configjs)
      ]_vars

Witness_C13 ==
    /\ result.op = "set_lastrun_raised"
    /\ fs.settings = Corrupt
    /\ fs.configjs = Corrupt

\* C14: when the replacement program cannot be located or started, the
\* handoff is fatal: the process ends with a non-zero exit status, whether
\* the handoff was entered from the GUI Play button or from a non-GUI run.
Claim_C14 ==
    (pc = "exited" /\ message = "FileNotFoundError") => exit_status # 0

\* C15: when thcrap.exe is absent and the cached archive exists, init_thcrap
\* unpacks the cached archive into the runtime root, fetches nothing from the
\* network and returns without error; a fetch happens only when the cached
\* archive is absent.
Claim_C15 ==
    [][ /\ (pc \in {"gui_init", "cli_init"} /\ ~fs.exe /\ fs.zip_cache)
           => /\ pc' \in {"gui_launcher", "cli_configurator"}
              /\ "extract" \in effects'
              /\ "fetch" \notin effects'
        /\ (pc \in {"gui_init", "cli_init"} /\ "fetch" \in effects' \ effects)
           => ~fs.zip_cache
      ]_vars

\* C16: in the GUI, after any sequence of selections and configurator
\* re-invocations (each replacing the displayed list with a freshly
\* discovered one, possibly shorter), the selected index is a valid index
\* into the displayed list, so Play resolves to exactly one of its names.
Claim_C16 ==
    (script = "gui" /\ pc = "mainloop") => configvar \in 0..(Len(configs) - 1)

====
